---- MODULE Spec2Model ----
(***************************************************************************)
(* Model of the notebook 03_Single_Multi_Unit_Activity_Analysis.ipynb.     *)
(*                                                                         *)
(* Each notebook function is an operator that computes, from its           *)
(* arguments, the state of the working directory and an oracle `lib` for   *)
(* the external libraries, the ordered log of external calls it makes and  *)
(* how it ends (a returned value or a raised exception).  The oracle       *)
(* chooses what the code cannot decide: which library call raises (if any) *)
(* and with what exception, how many segments/signals/spikes the data      *)
(* holds, what an existing output folder makes the sorter do, and the      *)
(* labelling a clustering backend produces.                                *)
(*                                                                         *)
(* Two specifications use the functions:                                   *)
(*   Spec          any function is called with any arguments (bounded);    *)
(*   NotebookSpec  the code cells run top to bottom with the example       *)
(*                 arguments, execution stopping at the first exception.   *)
(***************************************************************************)
EXTENDS Integers, Sequences, FiniteSets, TLC

VARIABLES fs, ncalls, last, returned, pc, ns, trace

vars == <<fs, ncalls, last, returned, pc, ns, trace>>

----------------------------------------------------------------------------
(* Bounds of the model *)

MaxCalls == 2        \* function calls made in one behaviour of Spec
MaxSegments == 1     \* segments a block read from a file may hold
MaxSignals == 1      \* analog signals a segment may hold
MaxSpikes == 2       \* waveforms a waveform extractor may hold
MaxSamples == 1      \* samples per waveform and channel
MaxComponents == 2   \* largest n_components passed to extract_features
MaxLabelings == 2    \* distinct labellings a backend's fit_predict may give

----------------------------------------------------------------------------
(* Python values.  Strings are TLA+ strings; values that may be None or   *)
(* numbers or dictionaries are tagged so that they can be told apart.     *)

None == [t |-> "None"]
PyInt(n) == [t |-> "int", n |-> n]
PyFloat(tenths) == [t |-> "float", tenths |-> tenths]   \* 0.5 is PyFloat(5)
PyDict(d) == [t |-> "dict", d |-> d]

\* Python's truth value of an object, as `if x:` and `a if x else b` test it.
Truthy(v) ==
    CASE v.t = "None"  -> FALSE
      [] v.t = "int"   -> v.n # 0
      [] v.t = "float" -> v.tenths # 0
      [] v.t = "dict"  -> DOMAIN v.d # {}

\* dict.get(key, default)
dict_get(kwargs, key, default) ==
    IF key \in DOMAIN kwargs THEN kwargs[key] ELSE default

----------------------------------------------------------------------------
(* External calls, outcomes and exceptions *)

Call(fn, args) == [fn |-> fn, args |-> args]

Return(calls, v, newfs) == [kind |-> "return", value |-> v, calls |-> calls, fs |-> newfs]
Raise(calls, e, newfs) == [kind |-> "raise", value |-> e, calls |-> calls, fs |-> newfs]

\* the exception the library call `fn` raises under oracle `lib`
LibExc(lib, fn) == [type |-> lib.exc, raised_by |-> fn]
ValueError(msg) == [type |-> "ValueError", msg |-> msg]
IndexError(at) == [type |-> "IndexError", at |-> at]

LibExcTypes == {"OSError", "RuntimeError"}

----------------------------------------------------------------------------
(* 1. Data handling: load_data *)

default_io_type == "NeuralynxIO"

\* the keys of the io_types dictionary
io_types_keys == {"NeuralynxIO", "BlackrockIO", "NixIO"}

\* io_types[key]: the reader object built for the key
io_types(file_path, key) ==
    CASE key = "NeuralynxIO" -> [obj |-> "reader", cls |-> "NeuralynxIO", dirname |-> file_path]
      [] key = "BlackrockIO" -> [obj |-> "reader", cls |-> "BlackrockIO", filename |-> file_path]
      [] key = "NixIO"       -> [obj |-> "reader", cls |-> "NixIO", filename |-> file_path]

\* the constructor calls evaluated by the dictionary display, in order
io_types_construction(file_path) ==
    << Call("NeuralynxIO", [dirname |-> file_path]),
       Call("BlackrockIO", [filename |-> file_path]),
       Call("NixIO", [filename |-> file_path]) >>

\* `if io_type not in io_types`
unsupported_io_type(io_type) == io_type \notin io_types_keys

unsupported_io_message(io_type) == "Unsupported IO type: " \o io_type

\* The part of load_data after the dictionary has been built.
load_data_selected(file_path, io_type, lib, calls, dir) ==
    IF unsupported_io_type(io_type)
    THEN Raise(calls, ValueError(unsupported_io_message(io_type)), dir)
    ELSE
      LET reader == io_types(file_path, io_type)
          c1 == Append(calls, Call("read_block", [self |-> reader]))
          block == [obj |-> "block", read_by |-> reader, nseg |-> lib.nseg, nsig |-> lib.nsig]
      IN IF lib.fail = "read_block" THEN Raise(c1, LibExc(lib, "read_block"), dir)
         ELSE IF block.nseg = 0 THEN Raise(c1, IndexError("segments[0]"), dir)
         ELSE IF block.nsig = 0 THEN Raise(c1, IndexError("analogsignals[0]"), dir)
         ELSE
           LET analog_signal == [obj |-> "analogsignal", block |-> block,
                                 segment |-> 0, index |-> 0]
               c2 == Append(c1, Call("NeoRecordingExtractor", [signal |-> analog_signal]))
           IN IF lib.fail = "NeoRecordingExtractor"
              THEN Raise(c2, LibExc(lib, "NeoRecordingExtractor"), dir)
              ELSE Return(c2, [obj |-> "recording", op |-> "NeoRecordingExtractor",
                               src |-> analog_signal], dir)

\* the first constructor of the dictionary display that raises (0: none)
first_failing_reader(file_path, lib) ==
    LET cs == io_types_construction(file_path)
        bad == {i \in 1..Len(cs) : cs[i].fn = lib.fail}
    IN IF bad = {} THEN 0 ELSE CHOOSE i \in bad : \A j \in bad : i <= j

\* Variant: only the selected reader is built, after the io_type check.
load_data_lazy(file_path, io_type, lib, dir) ==
    IF unsupported_io_type(io_type)
    THEN Raise(<< >>, ValueError(unsupported_io_message(io_type)), dir)
    ELSE LET cs == io_types_construction(file_path)
             k == CHOOSE i \in 1..Len(cs) : cs[i].fn = io_type
         IN IF lib.fail = io_type
            THEN Raise(<< cs[k] >>, LibExc(lib, io_type), dir)
            ELSE load_data_selected(file_path, io_type, lib, << cs[k] >>, dir)

load_data(file_path, io_type, lib, dir) ==
    LET cs == io_types_construction(file_path)
        k == first_failing_reader(file_path, lib)
    IN IF k # 0
       THEN Raise(SubSeq(cs, 1, k), LibExc(lib, cs[k].fn), dir)
       ELSE load_data_selected(file_path, io_type, lib, cs, dir)

\* Oracles differing only in a field that is never read are one oracle.
NoFailure(l) == l.fail = "none" => l.exc = "OSError"

LoadLib ==
    { l \in [fail : {"none", "NeuralynxIO", "BlackrockIO", "NixIO", "read_block",
                     "NeoRecordingExtractor"},
             exc : LibExcTypes, nseg : 0..MaxSegments, nsig : 0..MaxSignals] :
        /\ NoFailure(l)
        /\ l.fail # "none" => (l.nseg = 1 /\ l.nsig = 1) }

----------------------------------------------------------------------------
(* 2. Preprocessing: preprocess_data *)

default_freq_min == 300
default_freq_max == 3000
default_notch_freq == None
default_common_ref_type == "median"

\* Variant: `if notch_freq is not None:`
notch_applies_unless_None(notch_freq) == notch_freq # None

\* `if notch_freq:`
notch_applies(notch_freq) == Truthy(notch_freq)

Filtered(op, recording, params) ==
    [obj |-> "recording", op |-> op, src |-> recording, params |-> params]

preprocess_data(recording, freq_min, freq_max, notch_freq, common_ref_type, lib, dir) ==
    LET bp_args == [recording |-> recording, freq_min |-> freq_min, freq_max |-> freq_max]
        c1 == << Call("bandpass_filter", bp_args) >>
        recording_bp == Filtered("bandpass_filter", recording,
                                 [freq_min |-> freq_min, freq_max |-> freq_max])
    IN IF lib.fail = "bandpass_filter" THEN Raise(c1, LibExc(lib, "bandpass_filter"), dir)
       ELSE
         LET notch == notch_applies(notch_freq)
             c2 == IF notch
                   THEN Append(c1, Call("notch_filter",
                                        [recording |-> recording_bp, freq |-> notch_freq]))
                   ELSE c1
             recording_notch == IF notch
                                THEN Filtered("notch_filter", recording_bp, [freq |-> notch_freq])
                                ELSE recording_bp
         IN IF notch /\ lib.fail = "notch_filter"
            THEN Raise(c2, LibExc(lib, "notch_filter"), dir)
            ELSE
              LET c3 == Append(c2, Call("common_reference",
                                        [recording |-> recording_notch,
                                         reference |-> common_ref_type]))
              IN IF lib.fail = "common_reference"
                 THEN Raise(c3, LibExc(lib, "common_reference"), dir)
                 ELSE Return(c3, Filtered("common_reference", recording_notch,
                                          [reference |-> common_ref_type]), dir)

PreprocessLib ==
    { l \in [fail : {"none", "bandpass_filter", "notch_filter", "common_reference"},
             exc : LibExcTypes] : NoFailure(l) }

----------------------------------------------------------------------------
(* The working directory: the two folders the notebook writes.  A folder   *)
(* is absent, or holds what the call numbered `by` wrote into it.          *)

Absent == [what |-> "absent"]
Stored(what, by) == [what |-> what, by |-> by]

sorting_output_folder == "sorting_output"
waveforms_folder == "waveforms"

----------------------------------------------------------------------------
(* 3. Spike sorting: sort_spikes *)

default_sorter_name == "kilosort2"
default_custom_params == None

\* what ss.get_default_params(sorter_name) returns
get_default_params(sorter_name) == PyDict([defaults_of |-> sorter_name])

\* Variant: `custom_params if custom_params is not None else ...`
looks_up_defaults_if_None(custom_params) == custom_params = None

\* `custom_params if custom_params else ss.get_default_params(sorter_name)`:
\* TRUE when the defaults are looked up
looks_up_defaults(custom_params) == ~Truthy(custom_params)

\* ss.run_sorter(sorter_name, recording, output_folder='sorting_output', **sorter_params)
run_sorter(sorter_name, recording, sorter_params, lib, dir, id, calls) ==
    LET c == Append(calls, Call("run_sorter",
                 [sorter_name |-> sorter_name, recording |-> recording,
                  output_folder |-> sorting_output_folder, params |-> sorter_params.d]))
        exists == dir[sorting_output_folder] # Absent
    IN IF exists /\ lib.exists = "refuse"
       THEN Raise(c, LibExc(lib, "run_sorter"), dir)
       ELSE IF lib.fail = "run_sorter"
       THEN Raise(c, LibExc(lib, "run_sorter"),
                  IF lib.late
                  THEN [dir EXCEPT ![sorting_output_folder] = Stored("partial", id)]
                  ELSE dir)
       ELSE Return(c, [obj |-> "sorting", folder |-> sorting_output_folder, by |-> id,
                       sorter_name |-> sorter_name, recording |-> recording,
                       params |-> sorter_params.d],
                   [dir EXCEPT ![sorting_output_folder] = Stored("sorting", id)])

\* Variant: the sorter runs inside try/except and a failure yields None.
sort_spikes_swallowing(recording, sorter_name, custom_params, lib, dir, id) ==
    LET defaults == looks_up_defaults(custom_params)
        c1 == IF defaults
              THEN << Call("get_default_params", [sorter_name |-> sorter_name]) >>
              ELSE << >>
        sorter_params == IF defaults THEN get_default_params(sorter_name) ELSE custom_params
        out == run_sorter(sorter_name, recording, sorter_params, lib, dir, id, c1)
    IN IF defaults /\ lib.fail = "get_default_params"
       THEN Raise(c1, LibExc(lib, "get_default_params"), dir)
       ELSE IF out.kind = "raise" THEN Return(out.calls, None, out.fs) ELSE out

sort_spikes(recording, sorter_name, custom_params, lib, dir, id) ==
    IF looks_up_defaults(custom_params)
    THEN LET c1 == << Call("get_default_params", [sorter_name |-> sorter_name]) >>
         IN IF lib.fail = "get_default_params"
            THEN Raise(c1, LibExc(lib, "get_default_params"), dir)
            ELSE run_sorter(sorter_name, recording, get_default_params(sorter_name),
                            lib, dir, id, c1)
    ELSE run_sorter(sorter_name, recording, custom_params, lib, dir, id, << >>)

SortLib ==
    { l \in [fail : {"none", "get_default_params", "run_sorter"},
             exc : LibExcTypes, exists : {"refuse", "replace"}, late : BOOLEAN] :
        /\ NoFailure(l)
        /\ l.fail # "run_sorter" => ~l.late
        /\ l.fail = "get_default_params" => l.exists = "replace" }

----------------------------------------------------------------------------
(* 4. Postprocessing: postprocess_sorting *)

ms_before == PyFloat(15)
ms_after == PyFloat(25)

postprocess_sorting(sorting, recording, lib, dir, id) ==
    LET c1 == << Call("WaveformExtractor.create",
                      [recording |-> recording, sorting |-> sorting,
                       folder |-> waveforms_folder, remove_existing_folder |-> TRUE]) >>
        created == [dir EXCEPT ![waveforms_folder] = Stored("created", id)]
        c2 == Append(c1, Call("set_params", [ms_before |-> ms_before, ms_after |-> ms_after]))
        c3 == Append(c2, Call("run", [folder |-> waveforms_folder]))
    IN IF lib.fail = "WaveformExtractor.create"
       THEN Raise(c1, LibExc(lib, "WaveformExtractor.create"),
                  IF lib.late THEN [dir EXCEPT ![waveforms_folder] = Absent] ELSE dir)
       ELSE IF lib.fail = "set_params"
       THEN Raise(c2, LibExc(lib, "set_params"), created)
       ELSE IF lib.fail = "run"
       THEN Raise(c3, LibExc(lib, "run"),
                  IF lib.late
                  THEN [dir EXCEPT ![waveforms_folder] = Stored("partial", id)]
                  ELSE created)
       ELSE Return(c3, [obj |-> "waveform_extractor", folder |-> waveforms_folder,
                        by |-> id, sorting |-> sorting, recording |-> recording],
                   [dir EXCEPT ![waveforms_folder] = Stored("waveforms", id)])

PostprocessLib ==
    { l \in [fail : {"none", "WaveformExtractor.create", "set_params", "run"},
             exc : LibExcTypes, late : BOOLEAN] :
        /\ NoFailure(l)
        /\ l.fail \in {"none", "set_params"} => ~l.late }

----------------------------------------------------------------------------
(* 4b. Feature extraction: extract_features *)

default_method == "pca"
default_n_components == 3

\* Variant: the test is on the other documented method, `method != 'waveform'`
uses_pca_unless_waveform(method) == method # "waveform"

\* `if method == 'pca'`
uses_pca(method) == method = "pca"

\* numpy shapes: waveforms.reshape(waveforms.shape[0], -1)
reshape_rows(shape) == << shape[1], shape[2] * shape[3] >>
\* np.mean(..., axis=(1, 2)) and np.std(..., axis=(1, 2)) of a 3-d array
reduce_axes_1_2(shape) == << shape[1] >>
\* np.column_stack of 1-d arrays of equal length
column_stack(shapes) == << shapes[1][1], Len(shapes) >>

extract_features(waveform_extractor, method, n_components, lib, dir) ==
    LET c1 == << Call("get_waveforms", [self |-> waveform_extractor]) >>
        waveforms == [obj |-> "ndarray", shape |-> << lib.nspikes, lib.nsamples, 1 >>,
                      how |-> "get_waveforms", src |-> waveform_extractor]
    IN IF lib.fail = "get_waveforms" THEN Raise(c1, LibExc(lib, "get_waveforms"), dir)
       ELSE IF uses_pca(method)
       THEN LET c2 == Append(c1, Call("PCA", [n_components |-> n_components]))
                X == reshape_rows(waveforms.shape)
                c3 == Append(c2, Call("PCA.fit_transform", [X |-> X]))
            IN IF lib.fail = "PCA" THEN Raise(c2, LibExc(lib, "PCA"), dir)
               ELSE IF lib.fail = "PCA.fit_transform"
               THEN Raise(c3, LibExc(lib, "PCA.fit_transform"), dir)
               \* fit_transform gives one row per sample, one column per component
               ELSE Return(c3, [obj |-> "ndarray", shape |-> << X[1], n_components >>,
                                how |-> "pca", src |-> waveform_extractor], dir)
       ELSE LET spike_width == reduce_axes_1_2(waveforms.shape)
                spike_amplitude == reduce_axes_1_2(waveforms.shape)
                c2 == c1 \o << Call("np.mean", [of |-> "np.abs", axis |-> << 1, 2 >>]),
                               Call("np.std", [axis |-> << 1, 2 >>]),
                               Call("np.column_stack", [n |-> 2]) >>
            IN Return(c2, [obj |-> "ndarray",
                           shape |-> column_stack(<< spike_width, spike_amplitude >>),
                           how |-> "mean_abs_std", src |-> waveform_extractor], dir)

ExtractLib ==
    { l \in [fail : {"none", "get_waveforms", "PCA", "PCA.fit_transform"},
             exc : LibExcTypes, nspikes : 0..MaxSpikes, nsamples : 1..MaxSamples] :
        /\ NoFailure(l)
        /\ l.fail # "none" => (l.nspikes = 1 /\ l.nsamples = 1) }

----------------------------------------------------------------------------
(* 5. Clustering: cluster_spikes *)

default_cluster_method == "gmm"
default_gmm_n_components == 3
default_eps == PyFloat(5)
default_min_samples == 5
default_n_clusters == 3

\* Variant: the chain ends in a default backend instead of an error.
clustering_backend_default_gmm(method) ==
    CASE method = "dbscan"        -> "DBSCAN"
      [] method = "agglomerative" -> "AgglomerativeClustering"
      [] OTHER                    -> "GaussianMixture"

\* the if/elif chain on `method`: the backend class, or "unsupported"
clustering_backend(method) ==
    CASE method = "gmm"           -> "GaussianMixture"
      [] method = "dbscan"        -> "DBSCAN"
      [] method = "agglomerative" -> "AgglomerativeClustering"
      [] OTHER                    -> "unsupported"

\* Variant: the agglomerative branch reads the key of the gmm branch.
backend_arguments_copied_key(backend, kwargs) ==
    CASE backend = "GaussianMixture" ->
           [n_components |-> dict_get(kwargs, "n_components", PyInt(default_gmm_n_components))]
      [] backend = "DBSCAN" ->
           [eps |-> dict_get(kwargs, "eps", default_eps),
            min_samples |-> dict_get(kwargs, "min_samples", PyInt(default_min_samples))]
      [] backend = "AgglomerativeClustering" ->
           [n_clusters |-> dict_get(kwargs, "n_components", PyInt(default_n_clusters))]

\* the keyword arguments the backend's constructor is given
backend_arguments(backend, kwargs) ==
    CASE backend = "GaussianMixture" ->
           [n_components |-> dict_get(kwargs, "n_components", PyInt(default_gmm_n_components))]
      [] backend = "DBSCAN" ->
           [eps |-> dict_get(kwargs, "eps", default_eps),
            min_samples |-> dict_get(kwargs, "min_samples", PyInt(default_min_samples))]
      [] backend = "AgglomerativeClustering" ->
           [n_clusters |-> dict_get(kwargs, "n_clusters", PyInt(default_n_clusters))]

unsupported_method_message(method) == "Unsupported clustering method: " \o method

\* what <backend>.fit_predict(features) returns under oracle `lib`
fit_predict(backend, arguments, features, lib) ==
    [obj |-> "labels", backend |-> backend, arguments |-> arguments,
     X |-> features, labeling |-> lib.labeling]

cluster_spikes(features, method, kwargs, lib, dir) ==
    LET backend == clustering_backend(method)
    IN IF backend = "unsupported"
       THEN Raise(<< >>, ValueError(unsupported_method_message(method)), dir)
       ELSE LET arguments == backend_arguments(backend, kwargs)
                c1 == << Call(backend, arguments) >>
                c2 == Append(c1, Call(backend \o ".fit_predict", [X |-> features]))
            IN IF lib.fail = backend THEN Raise(c1, LibExc(lib, backend), dir)
               ELSE IF lib.fail = backend \o ".fit_predict"
               THEN Raise(c2, LibExc(lib, backend \o ".fit_predict"), dir)
               ELSE Return(c2, fit_predict(backend, arguments, features, lib), dir)

\* the oracles for a call that selects `backend`
ClusterLib(backend) ==
    { l \in [fail : {"none", backend, backend \o ".fit_predict"},
             exc : LibExcTypes, labeling : 1..MaxLabelings] :
        /\ NoFailure(l)
        /\ l.fail # "none" => l.labeling = 1 }

----------------------------------------------------------------------------
(* 8. Visualization: plot_cluster_features *)

plot_cluster_features(features, labels, lib, dir) ==
    LET ncols == features.shape[2]
        c1 == << Call("px.scatter", [x |-> << features, 0 >>, y |-> << features, 1 >>,
                                     color |-> labels]) >>
        c2 == Append(c1, Call("update_layout",
                              [title |-> "Spike Clustering", xaxis_title |-> "Feature 1",
                               yaxis_title |-> "Feature 2"]))
        c3 == Append(c2, Call("show", [fig |-> "fig"]))
    IN IF ncols < 1 THEN Raise(<< >>, IndexError("features[:, 0]"), dir)
       ELSE IF ncols < 2 THEN Raise(<< >>, IndexError("features[:, 1]"), dir)
       ELSE IF lib.fail = "px.scatter" THEN Raise(c1, LibExc(lib, "px.scatter"), dir)
       ELSE IF lib.fail = "update_layout" THEN Raise(c2, LibExc(lib, "update_layout"), dir)
       ELSE IF lib.fail = "show" THEN Raise(c3, LibExc(lib, "show"), dir)
       ELSE Return(c3, None, dir)

PlotLib ==
    { l \in [fail : {"none", "px.scatter", "update_layout", "show"}, exc : LibExcTypes] :
        NoFailure(l) }

----------------------------------------------------------------------------
(* State.                                                                  *)
(*   fs        the working directory (the two output folders)              *)
(*   ncalls    notebook functions called so far                            *)
(*   last      the most recent call: function, arguments, oracle, outcome  *)
(*   returned  the stored outputs (folder, writer) that sortings and       *)
(*             waveform extractors returned so far refer to                *)
(*   pc        the next call of the notebook ("failed" after an exception) *)
(*   ns        the notebook's global names                                 *)
(*   trace     the calls the notebook run has made, in order               *)

Undefined == [t |-> "undefined"]
NoCall == [fn |-> "none"]

EmptyNamespace ==
    [recording |-> Undefined, recording_preprocessed |-> Undefined,
     sorting |-> Undefined, waveform_extractor |-> Undefined,
     features |-> Undefined, labels |-> Undefined]

EmptyDir == [f \in {sorting_output_folder, waveforms_folder} |-> Absent]

HandleFunctions == {"sort_spikes", "postprocess_sorting"}

\* the record of a finished call
Finished(fn, args, lib, out) ==
    [fn |-> fn, args |-> args, lib |-> lib, id |-> ncalls + 1,
     outcome |-> [kind |-> out.kind, value |-> out.value, calls |-> out.calls]]

\* the effect of a finished call on fs, ncalls, last and returned
Effect(fn, args, lib, out) ==
    /\ last' = Finished(fn, args, lib, out)
    /\ fs' = out.fs
    /\ ncalls' = ncalls + 1
    /\ returned' = IF /\ out.kind = "return"
                      /\ fn \in HandleFunctions
                      /\ "folder" \in DOMAIN out.value
                   THEN returned \cup {[folder |-> out.value.folder, by |-> out.value.by]}
                   ELSE returned

----------------------------------------------------------------------------
(* Spec: the functions called with arbitrary arguments *)

example_file_path == "data/sample_data"

OkLoadLib == [fail |-> "none", exc |-> "OSError", nseg |-> 1, nsig |-> 1]
OkLib == [fail |-> "none", exc |-> "OSError"]

FilePaths == {example_file_path}
IoTypes == io_types_keys \cup {"PlexonIO", "neuralynx"}

RecordingA == load_data(example_file_path, "NeuralynxIO", OkLoadLib, EmptyDir).value
RecordingB ==
    preprocess_data(RecordingA, default_freq_min, default_freq_max, default_notch_freq,
                    default_common_ref_type, OkLib, EmptyDir).value
Recordings == {RecordingA, RecordingB}

Frequencies == {<< default_freq_min, default_freq_max >>, << 500, 5000 >>}
NotchFreqs == {None, PyFloat(0), PyInt(60)}
CommonRefTypes == {"median", "average"}

SorterNames == {"kilosort2", "mountainsort4"}
CustomParams == {None, PyDict(<< >>), PyDict([detect_threshold |-> PyInt(6)])}

Init ==
    /\ fs = EmptyDir
    /\ ncalls = 0
    /\ last = NoCall
    /\ returned = {}
    /\ pc = "interactive"
    /\ ns = EmptyNamespace
    /\ trace = << >>

Interactive == ncalls < MaxCalls /\ UNCHANGED << pc, ns, trace >>

Call_load_data ==
    /\ Interactive
    /\ \E file_path \in FilePaths, io_type \in IoTypes, lib \in LoadLib :
         Effect("load_data", [file_path |-> file_path, io_type |-> io_type], lib,
                load_data(file_path, io_type, lib, fs))

Call_preprocess_data ==
    /\ Interactive
    /\ \E recording \in {RecordingA}, f \in Frequencies, notch_freq \in NotchFreqs,
          common_ref_type \in CommonRefTypes, lib \in PreprocessLib :
         Effect("preprocess_data",
                [recording |-> recording, freq_min |-> f[1], freq_max |-> f[2],
                 notch_freq |-> notch_freq, common_ref_type |-> common_ref_type], lib,
                preprocess_data(recording, f[1], f[2], notch_freq, common_ref_type, lib, fs))

Call_sort_spikes ==
    /\ Interactive
    /\ \E recording \in Recordings, sorter_name \in SorterNames,
          custom_params \in CustomParams, lib \in SortLib :
         Effect("sort_spikes",
                [recording |-> recording, sorter_name |-> sorter_name,
                 custom_params |-> custom_params], lib,
                sort_spikes(recording, sorter_name, custom_params, lib, fs, ncalls + 1))

OkSortLib == [fail |-> "none", exc |-> "OSError", exists |-> "replace", late |-> FALSE]
OkPostprocessLib == [fail |-> "none", exc |-> "OSError", late |-> FALSE]

\* a sorting kept from an earlier session (its folder is gone), per recording
Sortings ==
    { sort_spikes(r, default_sorter_name, default_custom_params, OkSortLib,
                  EmptyDir, 0).value : r \in Recordings }

Call_postprocess_sorting ==
    /\ Interactive
    /\ \E sorting \in Sortings, recording \in Recordings, lib \in PostprocessLib :
         Effect("postprocess_sorting", [sorting |-> sorting, recording |-> recording], lib,
                postprocess_sorting(sorting, recording, lib, fs, ncalls + 1))

WaveformExtractorA ==
    LET sorting == CHOOSE x \in Sortings : x.recording = RecordingB
    IN postprocess_sorting(sorting, RecordingB, OkPostprocessLib, EmptyDir, 0).value

FeatureMethods == {"pca", "waveform", "PCA"}

Call_extract_features ==
    /\ Interactive
    /\ \E method \in FeatureMethods, n_components \in 1..MaxComponents, lib \in ExtractLib :
         Effect("extract_features",
                [waveform_extractor |-> WaveformExtractorA, method |-> method,
                 n_components |-> n_components], lib,
                extract_features(WaveformExtractorA, method, n_components, lib, fs))

FeaturesOf(method, n_components) ==
    extract_features(WaveformExtractorA, method, n_components,
                     [fail |-> "none", exc |-> "OSError", nspikes |-> MaxSpikes,
                      nsamples |-> 1], EmptyDir).value

ClusterMethods == {"gmm", "dbscan", "agglomerative", "hdbscan"}
KwargKeys == {"n_components", "eps", "min_samples", "n_clusters"}
\* the value a caller gives each keyword (none of them the default)
KwargValue(key) ==
    CASE key = "n_components" -> PyInt(2)
      [] key = "eps"          -> PyFloat(3)
      [] key = "min_samples"  -> PyInt(10)
      [] key = "n_clusters"   -> PyInt(4)
\* no keyword, one keyword of each backend, a backend's two keywords, all of them
KwargKeySets ==
    {{}, KwargKeys, {"eps", "min_samples"}, {"n_components"}, {"eps"}, {"n_clusters"}}
Kwargs == { [k \in keys |-> KwargValue(k)] : keys \in KwargKeySets }

Call_cluster_spikes ==
    /\ Interactive
    /\ \E method \in ClusterMethods, kwargs \in Kwargs :
       \E lib \in ClusterLib(clustering_backend(method)) :
         LET features == FeaturesOf(default_method, default_n_components)
         IN Effect("cluster_spikes",
                   [features |-> features, method |-> method, kwargs |-> kwargs], lib,
                   cluster_spikes(features, method, kwargs, lib, fs))

Call_plot_cluster_features ==
    /\ Interactive
    /\ \E method \in {"pca", "waveform"}, n_components \in 1..MaxComponents, lib \in PlotLib :
         LET features == FeaturesOf(method, n_components)
             labels == cluster_spikes(features, default_cluster_method, << >>,
                                      [fail |-> "none", exc |-> "OSError", labeling |-> 1],
                                      EmptyDir).value
         IN Effect("plot_cluster_features", [features |-> features, labels |-> labels], lib,
                   plot_cluster_features(features, labels, lib, fs))

Next ==
    \/ Call_load_data
    \/ Call_preprocess_data
    \/ Call_sort_spikes
    \/ Call_postprocess_sorting
    \/ Call_extract_features
    \/ Call_cluster_spikes
    \/ Call_plot_cluster_features

Spec == Init /\ [][Next]_vars

----------------------------------------------------------------------------
(* NotebookSpec: the code cells run top to bottom ("Run All"), each        *)
(* example call with the arguments the cell writes; an exception ends the  *)
(* run.  The folders may be left over from an earlier run.                 *)

StagesInOrder ==
    << "load_data", "preprocess_data", "sort_spikes", "postprocess_sorting",
       "extract_features", "cluster_spikes", "plot_cluster_features" >>

\* recording = load_data(example_file_path)
Args_load_data(n) == [file_path |-> example_file_path, io_type |-> default_io_type]

\* recording_preprocessed = preprocess_data(recording)
Args_preprocess_data(n) ==
    [recording |-> n.recording, freq_min |-> default_freq_min,
     freq_max |-> default_freq_max, notch_freq |-> default_notch_freq,
     common_ref_type |-> default_common_ref_type]

\* Variant: the cell passes the raw recording to the sorter.
Args_sort_spikes_raw(n) ==
    [recording |-> n.recording, sorter_name |-> default_sorter_name,
     custom_params |-> default_custom_params]

\* sorting = sort_spikes(recording_preprocessed)
Args_sort_spikes(n) ==
    [recording |-> n.recording_preprocessed, sorter_name |-> default_sorter_name,
     custom_params |-> default_custom_params]

\* waveform_extractor = postprocess_sorting(sorting, recording_preprocessed)
Args_postprocess_sorting(n) ==
    [sorting |-> n.sorting, recording |-> n.recording_preprocessed]

\* features = extract_features(waveform_extractor)
Args_extract_features(n) ==
    [waveform_extractor |-> n.waveform_extractor, method |-> default_method,
     n_components |-> default_n_components]

\* labels = cluster_spikes(features, method='gmm')
Args_cluster_spikes(n) == [features |-> n.features, method |-> "gmm", kwargs |-> << >>]

\* plot_cluster_features(features, labels)
Args_plot_cluster_features(n) == [features |-> n.features, labels |-> n.labels]

NotebookInit ==
    /\ fs \in [{sorting_output_folder, waveforms_folder} -> {Absent, Stored("stale", 0)}]
    /\ ncalls = 0
    /\ last = NoCall
    /\ returned = {}
    /\ pc = "load_data"
    /\ ns = EmptyNamespace
    /\ trace = << >>

\* a statement `name = fn(args)` of a cell: bind the name and go on, or
\* stop the run with the exception
Statement(fn, args, lib, out, name, next) ==
    /\ Effect(fn, args, lib, out)
    /\ trace' = Append(trace, Finished(fn, args, lib, out))
    /\ ns' = IF out.kind = "return" /\ name # "" THEN [ns EXCEPT ![name] = out.value] ELSE ns
    /\ pc' = IF out.kind = "return" THEN next ELSE "failed"

Run_load_data ==
    /\ pc = "load_data"
    /\ \E lib \in LoadLib :
         LET a == Args_load_data(ns)
         IN Statement("load_data", a, lib, load_data(a.file_path, a.io_type, lib, fs),
                      "recording", "preprocess_data")

Run_preprocess_data ==
    /\ pc = "preprocess_data"
    /\ \E lib \in PreprocessLib :
         LET a == Args_preprocess_data(ns)
         IN Statement("preprocess_data", a, lib,
                      preprocess_data(a.recording, a.freq_min, a.freq_max, a.notch_freq,
                                      a.common_ref_type, lib, fs),
                      "recording_preprocessed", "sort_spikes")

Run_sort_spikes ==
    /\ pc = "sort_spikes"
    /\ \E lib \in SortLib :
         LET a == Args_sort_spikes(ns)
         IN Statement("sort_spikes", a, lib,
                      sort_spikes(a.recording, a.sorter_name, a.custom_params, lib, fs,
                                  ncalls + 1),
                      "sorting", "postprocess_sorting")

Run_postprocess_sorting ==
    /\ pc = "postprocess_sorting"
    /\ \E lib \in PostprocessLib :
         LET a == Args_postprocess_sorting(ns)
         IN Statement("postprocess_sorting", a, lib,
                      postprocess_sorting(a.sorting, a.recording, lib, fs, ncalls + 1),
                      "waveform_extractor", "extract_features")

Run_extract_features ==
    /\ pc = "extract_features"
    /\ \E lib \in ExtractLib :
         LET a == Args_extract_features(ns)
         IN Statement("extract_features", a, lib,
                      extract_features(a.waveform_extractor, a.method, a.n_components,
                                       lib, fs),
                      "features", "cluster_spikes")

Run_cluster_spikes ==
    /\ pc = "cluster_spikes"
    /\ \E lib \in ClusterLib(clustering_backend(Args_cluster_spikes(ns).method)) :
         LET a == Args_cluster_spikes(ns)
         IN Statement("cluster_spikes", a, lib,
                      cluster_spikes(a.features, a.method, a.kwargs, lib, fs),
                      "labels", "plot_cluster_features")

Run_plot_cluster_features ==
    /\ pc = "plot_cluster_features"
    /\ \E lib \in PlotLib :
         LET a == Args_plot_cluster_features(ns)
         IN Statement("plot_cluster_features", a, lib,
                      plot_cluster_features(a.features, a.labels, lib, fs),
                      "", "done")

NotebookNext ==
    \/ Run_load_data
    \/ Run_preprocess_data
    \/ Run_sort_spikes
    \/ Run_postprocess_sorting
    \/ Run_extract_features
    \/ Run_cluster_spikes
    \/ Run_plot_cluster_features

NotebookSpec == NotebookInit /\ [][NotebookNext]_vars

----------------------------------------------------------------------------
(* Properties.  HasCall / CallsTo read the log of external calls.          *)

CallsTo(calls, fn) == {i \in 1..Len(calls) : calls[i].fn = fn}
HasCall(calls, fn) == CallsTo(calls, fn) # {}

ReaderClasses == {"NeuralynxIO", "BlackrockIO", "NixIO"}
IsLast(fn) == last.fn = fn

\* C1: for every io_type other than 'NeuralynxIO', 'BlackrockIO' and 'NixIO'
\* and every file_path, load_data ends by raising ValueError
\* 'Unsupported IO type: <io_type>', reads no block and returns no recording.
C1_UnsupportedIoTypeRaisesValueError ==
    (IsLast("load_data") /\ last.args.io_type \notin ReaderClasses)
    => /\ last.outcome.kind = "raise"
       /\ last.outcome.value = ValueError("Unsupported IO type: " \o last.args.io_type)
       /\ ~HasCall(last.outcome.calls, "read_block")

C8_AllReadersBuiltFirst ==
    IsLast("load_data") =>
      LET a == last.args
          calls == last.outcome.calls
          built == << Call("NeuralynxIO", [dirname |-> a.file_path]),
                      Call("BlackrockIO", [filename |-> a.file_path]),
                      Call("NixIO", [filename |-> a.file_path]) >>
      IN /\ IF last.lib.fail \in ReaderClasses
            THEN \* the constructor's failure ends the call, whatever io_type is
                 /\ last.outcome.kind = "raise"
                 /\ last.outcome.value = [type |-> last.lib.exc, raised_by |-> last.lib.fail]
                 /\ \E k \in 1..3 : built[k].fn = last.lib.fail /\ calls = SubSeq(built, 1, k)
            ELSE \* all three readers are built before anything else happens
                 /\ Len(calls) >= 3
                 /\ SubSeq(calls, 1, 3) = built
         /\ \A i \in CallsTo(calls, "read_block") :
              /\ i = 4
              /\ calls[i].args.self.cls = a.io_type
         /\ last.outcome.kind = "return" =>
              LET sig == last.outcome.value.src
              IN /\ calls[5] = Call("NeoRecordingExtractor", [signal |-> sig])
                 /\ sig.segment = 0 /\ sig.index = 0
                 /\ sig.block.read_by = calls[4].args.self

C8_Witness ==
    /\ IsLast("load_data")
    /\ last.args.io_type = "PlexonIO"
    /\ last.lib.fail = "NixIO"
    /\ last.outcome.kind = "raise"
    /\ last.outcome.value.type = "RuntimeError"
    /\ Len(last.outcome.calls) = 3

\* The calls preprocess_data makes when nothing fails, the notch filter
\* included exactly when `notch` holds, and the recording it then returns.
PreprocessCalls(a, notch) ==
    LET bp == [obj |-> "recording", op |-> "bandpass_filter", src |-> a.recording,
               params |-> [freq_min |-> a.freq_min, freq_max |-> a.freq_max]]
        nt == [obj |-> "recording", op |-> "notch_filter", src |-> bp,
               params |-> [freq |-> a.notch_freq]]
        before_ref == IF notch THEN nt ELSE bp
    IN << Call("bandpass_filter", [recording |-> a.recording, freq_min |-> a.freq_min,
                                   freq_max |-> a.freq_max]) >>
       \o (IF notch
           THEN << Call("notch_filter", [recording |-> bp, freq |-> a.notch_freq]) >>
           ELSE << >>)
       \o << Call("common_reference", [recording |-> before_ref,
                                       reference |-> a.common_ref_type]) >>

IsPrefix(p, q) == Len(p) <= Len(q) /\ SubSeq(q, 1, Len(p)) = p

PreprocessFollows(notch) ==
    LET expected == PreprocessCalls(last.args, notch)
    IN /\ IsPrefix(last.outcome.calls, expected)
       /\ last.outcome.kind = "return" =>
            /\ last.outcome.calls = expected
            /\ last.outcome.value =
                 [obj |-> "recording", op |-> "common_reference",
                  src |-> expected[Len(expected)].args.recording,
                  params |-> [reference |-> last.args.common_ref_type]]

SortFollows(defaults) ==
    LET a == last.args
        calls == last.outcome.calls
        params == IF defaults THEN [defaults_of |-> a.sorter_name] ELSE a.custom_params.d
        runs == CallsTo(calls, "run_sorter")
        lookups == CallsTo(calls, "get_default_params")
    IN /\ Cardinality(runs) <= 1
       /\ last.outcome.kind = "return" => Cardinality(runs) = 1
       /\ \A i \in runs :
            calls[i] = Call("run_sorter",
                            [sorter_name |-> a.sorter_name, recording |-> a.recording,
                             output_folder |-> "sorting_output", params |-> params])
       /\ IF defaults
          THEN /\ lookups = {1}
               /\ calls[1] = Call("get_default_params", [sorter_name |-> a.sorter_name])
          ELSE lookups = {}

\* C7 (as stated): sort_spikes runs the named sorter exactly once with output
\* folder 'sorting_output'; for any custom_params other than None, an empty
\* dictionary included, the sorter is run with exactly those parameters and
\* the defaults are not looked up; the defaults of
\* get_default_params(sorter_name) are used only when custom_params is None.
C7_DefaultsOnlyWhenNone ==
    IsLast("sort_spikes") => SortFollows(last.args.custom_params = None)

\* C7 (amended): as above, but the caller's parameters are used, and the
\* defaults not looked up, only for a non-empty dictionary; for None and for
\* an empty dictionary the defaults are looked up and the sorter is run with
\* them.
C7_DefaultsWhenNoneOrEmpty ==
    IsLast("sort_spikes") =>
        SortFollows(last.args.custom_params \in {None, PyDict(<< >>)})

C7_Witness ==
    /\ IsLast("sort_spikes")
    /\ last.args.custom_params = PyDict(<< >>)
    /\ last.args.sorter_name = "mountainsort4"
    /\ last.outcome.kind = "return"
    /\ Len(last.outcome.calls) = 2

\* C9: extract_features performs PCA, with n_components components, if and
\* only if method == 'pca'; for every other method, 'waveform' or not, it
\* returns the two-column (mean absolute value, standard deviation) matrix
\* and raises no unsupported-selector error; the returned matrix has one row
\* per waveform in both branches.
C9_PcaOnlyForPca ==
    IsLast("extract_features") =>
      LET a == last.args
          calls == last.outcome.calls
          out == last.outcome
          got_waveforms == last.lib.fail # "get_waveforms"
      IN /\ HasCall(calls, "PCA") <=> (a.method = "pca" /\ got_waveforms)
         /\ \A i \in CallsTo(calls, "PCA") : calls[i].args.n_components = a.n_components
         /\ (a.method = "pca" /\ out.kind = "return") =>
              /\ HasCall(calls, "PCA.fit_transform")
              /\ out.value.how = "pca"
              /\ out.value.shape = << last.lib.nspikes, a.n_components >>
         /\ (a.method # "pca" /\ got_waveforms) =>
              /\ out.kind = "return"
              /\ out.value.how = "mean_abs_std"
              /\ out.value.shape = << last.lib.nspikes, 2 >>
              /\ ~HasCall(calls, "PCA.fit_transform")
         /\ out.kind = "raise" => out.value.type # "ValueError"

C9_Witness ==
    /\ IsLast("extract_features")
    /\ last.args.method = "PCA"
    /\ last.args.n_components = 1
    /\ last.outcome.kind = "return"
    /\ last.outcome.value.shape = << 2, 2 >>

\* The backend and constructor arguments C10 names for a supported method:
\* the caller's value for each key the backend reads, the default when the
\* key is absent, nothing else.
C10_Backend(method) ==
    CASE method = "gmm" -> "GaussianMixture"
      [] method = "dbscan" -> "DBSCAN"
      [] method = "agglomerative" -> "AgglomerativeClustering"

C10_Given(kwargs, key, default) == IF key \in DOMAIN kwargs THEN kwargs[key] ELSE default

C10_Arguments(method, kwargs) ==
    CASE method = "gmm" -> [n_components |-> C10_Given(kwargs, "n_components", PyInt(3))]
      [] method = "dbscan" -> [eps |-> C10_Given(kwargs, "eps", PyFloat(5)),
                               min_samples |-> C10_Given(kwargs, "min_samples", PyInt(5))]
      [] method = "agglomerative" -> [n_clusters |-> C10_Given(kwargs, "n_clusters", PyInt(3))]

\* C10: for each supported method cluster_spikes constructs and fits exactly
\* one backend, the one matching method, reads only that backend's keyword
\* parameters, uses the defaults 3 / 0.5 and 5 / 3 exactly when the key is
\* absent from kwargs, ignores every other key, and returns the backend's
\* fit_predict result unchanged.
C10_OneBackendWithItsParameters ==
    (IsLast("cluster_spikes") /\ last.args.method \in {"gmm", "dbscan", "agglomerative"}) =>
      LET a == last.args
          calls == last.outcome.calls
          backend == C10_Backend(a.method)
          construct == Call(backend, C10_Arguments(a.method, a.kwargs))
          fit == Call(backend \o ".fit_predict", [X |-> a.features])
      IN /\ IsPrefix(calls, << construct, fit >>)
         /\ Len(calls) >= 1
         /\ last.outcome.kind = "return" =>
              /\ calls = << construct, fit >>
              /\ last.outcome.value.backend = backend
              /\ last.outcome.value.arguments = construct.args
              /\ last.outcome.value.X = a.features
              /\ last.outcome.value.labeling = last.lib.labeling

C10_Witness ==
    /\ IsLast("cluster_spikes")
    /\ last.args.method = "dbscan"
    /\ DOMAIN last.args.kwargs = {"eps"}
    /\ last.outcome.kind = "return"
    /\ last.outcome.calls[1].args = [eps |-> PyFloat(3), min_samples |-> PyInt(5)]
    /\ last.outcome.value.labeling = 2

\* C5: the stages share no mutable state: after any sequence of calls to
\* sort_spikes and postprocess_sorting, the stored output that an earlier
\* call's returned sorting or waveform extractor refers to is still the one
\* that call wrote.
C5_EarlierResultsStayValid ==
    \A h \in returned :
        /\ fs[h.folder] # Absent
        /\ fs[h.folder].by = h.by
        /\ fs[h.folder].what \in {"sorting", "waveforms"}

----------------------------------------------------------------------------
(* Properties of the notebook run *)

\* The value stage i of the run is handed comes from the stage before it.
ReceivesPrevious(i) ==
    LET a == trace[i].args
        prev == trace[i - 1].outcome.value
    IN CASE i = 2 -> a.recording = prev
         [] i = 3 -> a.recording = prev
         [] i = 4 -> a.sorting = prev /\ a.recording = trace[2].outcome.value
         [] i = 5 -> a.waveform_extractor = prev
         [] i = 6 -> a.features = prev
         [] i = 7 -> a.labels = prev /\ a.features = trace[5].outcome.value

\* C3: the pipeline runs its stages in the fixed order load_data,
\* preprocess_data, sort_spikes, postprocess_sorting, extract_features,
\* cluster_spikes, plot_cluster_features; a stage starts only after the
\* previous one has returned and is handed the value that stage returned,
\* unchanged; sort_spikes and postprocess_sorting get the preprocessed
\* recording, never the raw one.
C3_StagesInOrderOnPreviousResult ==
    /\ Len(trace) <= 7
    /\ \A i \in 1..Len(trace) :
         /\ trace[i].fn = StagesInOrder[i]
         /\ i > 1 => /\ trace[i - 1].outcome.kind = "return"
                     /\ ReceivesPrevious(i)
    /\ \A i \in 1..Len(trace) :
         trace[i].fn \in {"sort_spikes", "postprocess_sorting"} =>
            /\ trace[i].args.recording.op = "common_reference"
            /\ trace[i].args.recording # trace[1].outcome.value

C3_Witness ==
    /\ pc = "done"
    /\ Len(trace) = 7
    /\ trace[7].fn = "plot_cluster_features"
    /\ trace[7].outcome.kind = "return"

\* the name a stage's result is bound to ("" for the plot, which binds none)
BoundName(fn) ==
    CASE fn = "load_data" -> "recording"
      [] fn = "preprocess_data" -> "recording_preprocessed"
      [] fn = "sort_spikes" -> "sorting"
      [] fn = "postprocess_sorting" -> "waveform_extractor"
      [] fn = "extract_features" -> "features"
      [] fn = "cluster_spikes" -> "labels"
      [] OTHER -> ""

\* C4: a failure raised by an external library call inside a stage reaches
\* the caller uncaught and unmodified: the stage makes no further call and
\* no second attempt, ends with the very exception the library raised,
\* yields no value, and no later stage of the pipeline is run.
C4_LibraryFailuresPropagate ==
    /\ \A i \in 1..Len(trace) :
         LET e == trace[i]
             calls == e.outcome.calls
         IN /\ HasCall(calls, e.lib.fail) =>
                 /\ e.outcome.kind = "raise"
                 /\ e.outcome.value = [type |-> e.lib.exc, raised_by |-> e.lib.fail]
                 /\ calls[Len(calls)].fn = e.lib.fail
                 /\ Cardinality(CallsTo(calls, e.lib.fail)) = 1
            /\ (e.outcome.kind = "raise" /\ e.outcome.value.type \in LibExcTypes) =>
                 e.outcome.value = [type |-> e.lib.exc, raised_by |-> calls[Len(calls)].fn]
            /\ e.outcome.kind = "raise" =>
                 /\ i = Len(trace)
                 /\ pc = "failed"
                 /\ BoundName(e.fn) # "" => ns[BoundName(e.fn)] = Undefined
    /\ pc = "failed" =>
         /\ trace # << >>
         /\ trace[Len(trace)].outcome.kind = "raise"
         /\ ~ENABLED NotebookNext

C4_Witness ==
    /\ pc = "failed"
    /\ Len(trace) = 3
    /\ last.fn = "sort_spikes"
    /\ last.lib.fail = "run_sorter"
    /\ last.outcome.value = [type |-> "RuntimeError", raised_by |-> "run_sorter"]
    /\ ns.sorting = Undefined

====
